---- MODULE Spec2Model ----
(***************************************************************************)
(* Model of nnef_tools/conversion/tensorflow/nnef_to_tf_passes.py:         *)
(* the padding resolver (_get_paddings), the padding extraction pass       *)
(* (_transform_extract_padding) and the bias splitting pass                *)
(* (_transform_extract_bias_add), run in that order by pre_conversion_pass.*)
(*                                                                         *)
(* Tensors and operators are objects with identity: they are modelled as   *)
(* entries of the sequences `tensors` and `ops`, addressed by their index. *)
(* g.operations is the sequence `operations` of operator indices.          *)
(***************************************************************************)
EXTENDS Integers, Sequences, FiniteSets

VARIABLES tensors, ops, operations, graph_outputs, pc, snapshot, idx,
          decision, visited, entry_ops

vars == <<tensors, ops, operations, graph_outputs, pc, snapshot, idx,
          decision, visited, entry_ops>>

(* ---------------------------- bounds ----------------------------------- *)

\* stored padding amounts range over -MaxPad .. MaxPad
MaxPad == 1

\* spatial extent of the graph's input tensor
Spatial == 10

(* ---------------------------- helpers ---------------------------------- *)

Range(s) == {s[i] : i \in 1..Len(s)}

MinOf(a, b) == IF a <= b THEN a ELSE b

\* math.floor(t / 2) under true division
Floor2(t) == t \div 2

\* math.ceil(t / 2) under true division
Ceil2(t) == -((-t) \div 2)

\* s[2:]
DropTwo(s) == IF Len(s) <= 2 THEN <<>> ELSE SubSeq(s, 3, Len(s))

\* tuple(s)[:2]
TakeTwo(s) == SubSeq(s, 1, MinOf(2, Len(s)))

\* tuple(s)[1:]
DropOne(s) == IF Len(s) <= 1 THEN <<>> ELSE SubSeq(s, 2, Len(s))

\* [v] * n
Repeat(v, n) == [i \in 1..n |-> v]

\* (the border compared as stored, without lower())
Lower_missing(s) == s

\* str.lower() on the border strings that occur
Lower(s) ==
    CASE s = "IGNORE" -> "ignore"
      [] s = "Constant" -> "constant"
      [] OTHER -> s

\* "conv" in name, over the operator names that occur
ContainsConv(name) ==
    name \in {"conv", "deconv", "conv_grad_filter", "separable_conv"}

\* "pool" in name, over the operator names that occur
ContainsPool(name) ==
    name \in {"argmax_pool", "max_pool_with_index", "max_pool", "avg_pool",
              "max_pool_grad", "max_pool_grad_with_index", "avg_pool_grad",
              "rms_pool"}

\* utils.recursive_any(nnefpadding, lambda x: x > 0) on a list of pairs
recursive_any_positive(nnefpadding) ==
    \E i \in 1..Len(nnefpadding) : nnefpadding[i][1] > 0 \/ nnefpadding[i][2] > 0

(* ------------------------ padding arithmetic --------------------------- *)

_calculate_padding_elem(upscaled_size, downscaled_size, filter_size, stride, dilation) ==
    LET dilated_filter_size == (filter_size - 1) * dilation + 1
        t == (downscaled_size - 1) * stride + dilated_filter_size - upscaled_size
    IN  <<Floor2(t), Ceil2(t)>>

\* zip() stops at the shortest of its arguments
_calculate_padding(upscaled_shape, downscaled_shape, filter_shape, strides, dilations) ==
    LET n == MinOf(MinOf(MinOf(Len(upscaled_shape), Len(downscaled_shape)),
                         MinOf(Len(filter_shape), Len(strides))),
                   Len(dilations))
    IN  [i \in 1..n |-> _calculate_padding_elem(upscaled_shape[i], downscaled_shape[i],
                                                filter_shape[i], strides[i], dilations[i])]

(* --------------------------- the resolver ------------------------------ *)

VALID == "VALID"

SAME == "SAME"

\* _InOpAndOutOfOpPadding(in_op, out_of_op); out_of_op None is has_out FALSE.
\* failed TRUE stands for the AssertionError of `assert False`.
Returned(in_op, has_out, out_of_op) ==
    [failed |-> FALSE, in_op |-> in_op, has_out |-> has_out, out_of_op |-> out_of_op]

Raised == [failed |-> TRUE, in_op |-> "", has_out |-> FALSE, out_of_op |-> <<>>]

\* The branch of _get_paddings that computes the padding of an operator
\* whose stored padding is empty; <<FALSE, _>> stands for `assert False`.
\* The conv and deconv branches slice the tensors themselves (input[2:]);
\* they are modelled as slicing the shape.
computed_padding(nnefop) ==
    LET in1 == tensors[nnefop.inputs[1]].shape
        in2 == tensors[nnefop.inputs[2]].shape
        in3 == tensors[nnefop.inputs[3]].shape
        out == tensors[nnefop.outputs[1]].shape
    IN  CASE nnefop.name = "conv" ->
               <<TRUE, _calculate_padding(DropTwo(in1), DropTwo(out), DropTwo(in2),
                                          nnefop.stride, nnefop.dilation)>>
          [] nnefop.name = "deconv" ->
               <<TRUE, _calculate_padding(DropTwo(out), DropTwo(in1), DropTwo(in2),
                                          nnefop.stride, nnefop.dilation)>>
          [] nnefop.name \in {"argmax_pool", "max_pool_with_index", "max_pool", "avg_pool"} ->
               <<TRUE, _calculate_padding(in1, out, nnefop.size,
                                          nnefop.stride, nnefop.dilation)>>
          [] nnefop.name = "conv_grad_filter" ->
               <<TRUE, _calculate_padding(DropTwo(in1), DropTwo(in2), nnefop.orig_filter_shape,
                                          nnefop.stride, nnefop.dilation)>>
          [] nnefop.name = "avg_pool_grad" ->
               <<TRUE, _calculate_padding(nnefop.orig_input_shape, in1, nnefop.size,
                                          nnefop.stride, nnefop.dilation)>>
          [] nnefop.name = "max_pool_grad" ->
               <<TRUE, _calculate_padding(in1, in2, nnefop.size,
                                          nnefop.stride, nnefop.dilation)>>
          [] nnefop.name = "max_pool_grad_with_index" ->
               <<TRUE, _calculate_padding(in1, in3, nnefop.size,
                                          nnefop.stride, nnefop.dilation)>>
          [] OTHER -> <<FALSE, <<>>>>

_get_paddings(nnefop) ==
    LET nnefpadding == nnefop.padding.list
        nnefborder == Lower(nnefop.border)
    IN  IF Len(nnefpadding) = 0 /\ ContainsPool(nnefop.name) /\ nnefborder = "ignore"
        THEN Returned(SAME, FALSE, <<>>)
        ELSE IF Len(nnefpadding) = 0 /\ ContainsConv(nnefop.name) /\ nnefborder = "constant"
        THEN Returned(SAME, FALSE, <<>>)
        ELSE IF ~recursive_any_positive(nnefpadding)
        THEN Returned(VALID, FALSE, <<>>)
        ELSE LET c == IF Len(nnefpadding) = 0
                      THEN computed_padding(nnefop)
                      ELSE <<TRUE, nnefpadding>>
             IN  IF ~c[1] THEN Raised
                 ELSE IF recursive_any_positive(c[2])
                 THEN IF ContainsConv(nnefop.name)
                      THEN Returned(VALID, TRUE, <<<<0, 0>>, <<0, 0>>>> \o c[2])
                      ELSE Returned(VALID, TRUE, c[2])
                 ELSE Returned(VALID, FALSE, <<>>)

(* ------------------------- operator kinds ------------------------------ *)

forward_ops == {"conv", "argmax_pool", "max_pool_with_index", "max_pool", "avg_pool"}

backward_ops == {"deconv", "conv_grad_filter", "max_pool_grad_with_index",
                 "avg_pool_grad", "max_pool_grad"}

supported_ops == forward_ops \cup backward_ops

bias_supported_ops == {"conv", "deconv"}

\* operator names outside the supported vocabulary that occur in the graphs
other_ops == {"relu", "separable_conv", "rms_pool"}

(* --------------------------- entry graphs ------------------------------ *)

Tensor(shape, dtype, is_constant, data) ==
    [shape |-> shape, dtype |-> dtype, is_constant |-> is_constant, data |-> data]

\* attribs["padding"] holds a list of pairs on entry and a mode string
\* once a pass has written it: mode = "" means "still a list".
PaddingList(l) == [mode |-> "", list |-> l]

PaddingMode(m) == [mode |-> m, list |-> <<>>]

Operation(name, inputs, outputs, padding, border, size) ==
    [name |-> name, inputs |-> inputs, outputs |-> outputs,
     padding |-> padding, border |-> border, size |-> size,
     stride |-> IF Len(size) = 0 THEN <<1, 1>> ELSE <<1, 1, 1, 1>>,
     dilation |-> IF Len(size) = 0 THEN <<1, 1>> ELSE <<1, 1, 1, 1>>,
     orig_filter_shape |-> <<3, 3>>,
     orig_input_shape |-> <<1, 1, Spatial, Spatial>>]

Amounts == (0 - MaxPad)..MaxPad

Pairs == {<<p, q>> : p \in Amounts, q \in Amounts}

\* stored paddings over the two spatial dimensions: empty, or one pair per
\* dimension (the second dimension unpadded or padded like the first)
SpatialPaddings ==
    {<<>>} \cup {<<a, b>> : a \in Pairs, b \in Pairs}

StoredPaddings ==
    {l \in SpatialPaddings : Len(l) = 0 \/ l[2] = l[1] \/ l[2] = <<0, 0>>}

Borders == {"constant", "ignore", "replicate", "IGNORE"}

\* bias tensors: constant [0], constant [1], constant [0, 0], not constant
Biases ==
    {Tensor(<<1, 1>>, "scalar", TRUE, <<0>>), Tensor(<<1, 1>>, "scalar", TRUE, <<1>>),
     Tensor(<<1, 2>>, "scalar", TRUE, <<0, 0>>), Tensor(<<1, 1>>, "scalar", FALSE, <<>>)}

IsPoolKind(name) == ContainsPool(name)

\* the stored padding of an operator: conv kinds store the spatial pairs,
\* pooling kinds one pair per tensor dimension
FullPadding(name, l) ==
    IF IsPoolKind(name) /\ Len(l) > 0 THEN <<<<0, 0>>, <<0, 0>>>> \o l ELSE l

InputsOf(name) ==
    CASE name \in {"conv", "deconv", "separable_conv"} -> {<<1, 2>>, <<1, 2, 3>>}
      [] name = "conv_grad_filter" -> {<<1, 2>>}
      [] name \in {"max_pool_grad", "max_pool_grad_with_index"} -> {<<1, 2, 3>>}
      [] OTHER -> {<<1>>}

SizeOf(name) == IF IsPoolKind(name) THEN <<1, 1, 2, 2>> ELSE <<>>

\* the shape a stride-1 operator gives its output
OutShape(name, l) ==
    LET grow(i) == IF Len(l) = 0 THEN 0
                   ELSE l[i][1] + l[i][2]
                        - (IF name \in {"conv", "separable_conv"} THEN 2
                           ELSE IF name \in forward_ops \cup {"rms_pool"} THEN 1 ELSE 0)
    IN  IF name \in {"relu"} \cup backward_ops
        THEN <<1, 1, Spatial, Spatial>>
        ELSE <<1, 1, Spatial + grow(1), Spatial + grow(2)>>

\* the second operator consumes the first one's output (tensor 4)
SecondOps ==
    {Operation("relu", <<4>>, <<5>>, PaddingList(<<>>), "constant", <<>>),
     Operation("add", <<4, 3>>, <<5>>, PaddingList(<<>>), "constant", <<>>),
     Operation("conv", <<4, 2>>, <<5>>, PaddingList(<<<<1, 1>>, <<1, 1>>>>), "constant", <<>>),
     Operation("conv", <<4, 2, 3>>, <<5>>, PaddingList(<<<<1, 1>>, <<1, 1>>>>), "constant", <<>>),
     Operation("deconv", <<4, 2, 3>>, <<5>>, PaddingList(<<>>), "constant", <<>>)}

Producers(t) == {o \in Range(operations) : t \in Range(ops[o].outputs)}

Consumers(t) == {o \in Range(operations) : t \in Range(ops[o].inputs)}

\* every tensor has at most one producer and is an input or output of some
\* operator or a graph output
Consistent ==
    \A t \in 1..Len(tensors) :
        /\ Cardinality(Producers(t)) <= 1
        /\ Producers(t) # {} \/ Consumers(t) # {} \/ t \in graph_outputs

EntryGraph(names) ==
    \E name \in names, l \in StoredPaddings, border \in Borders,
       bias \in Biases, second \in SecondOps :
      \E inputs \in InputsOf(name) :
        LET outs == IF name = "max_pool_with_index" THEN <<4, 6>> ELSE <<4>>
            first == Operation(name, inputs, outs, PaddingList(FullPadding(name, l)),
                               border, SizeOf(name))
            y == Tensor(OutShape(name, l),
                        IF name = "argmax_pool" THEN "integer" ELSE "scalar", FALSE, <<>>)
        IN  /\ tensors = <<Tensor(<<1, 1, Spatial, Spatial>>, "scalar", FALSE, <<>>),
                           Tensor(<<1, 1, 3, 3>>, "scalar", FALSE, <<>>),
                           bias, y, y>>
                         \o (IF Len(outs) = 2 THEN <<y>> ELSE <<>>)
            /\ ops = <<first, second>>
            /\ operations = <<1, 2>>
            /\ graph_outputs = {5} \cup (IF Len(outs) = 2 THEN {6} ELSE {})
            /\ Consistent

Init ==
    /\ EntryGraph(supported_ops \cup other_ops)
    /\ pc = "start"
    /\ snapshot = <<>>
    /\ idx = 0
    /\ decision = Raised
    /\ visited = <<>>
    /\ entry_ops = <<>>

(* ---------------- _transform_extract_padding (pass 1) ----------------- *)

\* (a loop over g.operations itself, which grows while the pass runs)
loop_list_live == operations

\* the list a pass iterates: list(g.operations), taken when the loop starts
loop_list == snapshot

\* the operator the loop is at
current == loop_list[idx]

nnefop_with_padding(nnefop, in_op_padding) ==
    [nnefop EXCEPT !.padding = PaddingMode(in_op_padding)]

\* (the padding after the data left out of the new shape)
padded_shape_before_only(shape, separate_padding) ==
    [i \in 1..MinOf(Len(shape), Len(separate_padding)) |->
        shape[i] + separate_padding[i][1]]

\* (no assertion on backward kinds)
assert_fails_never(nnefop, d) == FALSE

\* if nnefop.name in backward_ops: assert separate_padding is None
assert_fails(nnefop, d) == nnefop.name \in backward_ops /\ d.has_out

\* shape=[s + p + q for s, (p, q) in zip(input.shape, separate_padding)]
padded_shape(shape, separate_padding) ==
    [i \in 1..MinOf(Len(shape), Len(separate_padding)) |->
        shape[i] + separate_padding[i][1] + separate_padding[i][2]]

\* the "box" operator of lines 162-173, with output tensor `out`
pad_op(nnefop, input, out, separate_padding) ==
    [name |-> "box", inputs |-> <<input>>, outputs |-> <<out>>,
     padding |-> PaddingList(separate_padding), border |-> nnefop.border,
     size |-> Repeat(1, Len(tensors[input].shape)),
     stride |-> <<>>, dilation |-> <<>>,
     orig_filter_shape |-> <<>>, orig_input_shape |-> <<>>]

\* for nnefop in list(g.operations): the snapshot is taken
_transform_extract_padding_begin ==
    /\ pc = "start"
    /\ pc' = "padding"
    /\ snapshot' = operations
    /\ entry_ops' = operations
    /\ idx' = 1
    /\ visited' = <<>>
    /\ UNCHANGED <<tensors, ops, operations, graph_outputs, decision>>

\* an operator outside supported_ops is passed over
_transform_extract_padding_skip ==
    /\ pc = "padding"
    /\ idx <= Len(loop_list)
    /\ ops[current].name \notin supported_ops
    /\ idx' = idx + 1
    /\ visited' = Append(visited, current)
    /\ UNCHANGED <<tensors, ops, operations, graph_outputs, pc, snapshot,
                   decision, entry_ops>>

\* the resolver raises, or the assertion of line 158 fails after the mode
\* has been written into the padding attribute
_transform_extract_padding_abort ==
    /\ pc = "padding"
    /\ idx <= Len(loop_list)
    /\ ops[current].name \in supported_ops
    /\ LET d == _get_paddings(ops[current])
       IN  /\ d.failed \/ assert_fails(ops[current], d)
           /\ decision' = d
           /\ ops' = IF d.failed THEN ops
                     ELSE [ops EXCEPT ![current] = nnefop_with_padding(@, d.in_op)]
    /\ pc' = "aborted"
    /\ visited' = Append(visited, current)
    /\ UNCHANGED <<tensors, operations, graph_outputs, snapshot, idx, entry_ops>>

\* no separate padding: only the padding attribute is written
_transform_extract_padding_in_op ==
    /\ pc = "padding"
    /\ idx <= Len(loop_list)
    /\ ops[current].name \in supported_ops
    /\ LET d == _get_paddings(ops[current])
       IN  /\ ~d.failed
           /\ ~d.has_out
           /\ decision' = d
           /\ ops' = [ops EXCEPT ![current] = nnefop_with_padding(@, d.in_op)]
    /\ idx' = idx + 1
    /\ visited' = Append(visited, current)
    /\ UNCHANGED <<tensors, operations, graph_outputs, pc, snapshot, entry_ops>>

\* a separate padding: a "box" operator and its output tensor are created
\* and the operator's first input is rewired to that tensor
_transform_extract_padding_insert ==
    /\ pc = "padding"
    /\ idx <= Len(loop_list)
    /\ ops[current].name \in supported_ops
    /\ LET d == _get_paddings(ops[current])
           nnefop == ops[current]
           input == nnefop.inputs[1]
           out == Len(tensors) + 1
           box == Len(ops) + 1
       IN  /\ ~d.failed
           /\ d.has_out
           /\ ~assert_fails(nnefop, d)
           /\ decision' = d
           /\ tensors' = Append(tensors,
                                Tensor(padded_shape(tensors[input].shape, d.out_of_op),
                                       tensors[input].dtype, FALSE, <<>>))
           /\ ops' = Append([ops EXCEPT ![current] =
                                [nnefop_with_padding(@, d.in_op)
                                    EXCEPT !.inputs = <<out>> \o DropOne(nnefop.inputs)]],
                            pad_op(nnefop, input, out, d.out_of_op))
           /\ operations' = Append(operations, box)
    /\ idx' = idx + 1
    /\ visited' = Append(visited, current)
    /\ UNCHANGED <<graph_outputs, pc, snapshot, entry_ops>>

(* ---------------- _transform_extract_bias_add (pass 2) ----------------- *)

\* (the addition writing the fresh tensor instead of the original output)
bias_add_op_wrong_output(output_without_bias, bias, output_with_bias) ==
    [name |-> "_bias_add", inputs |-> <<output_with_bias, bias>>,
     outputs |-> <<output_without_bias>>,
     padding |-> PaddingList(<<>>), border |-> "", size |-> <<>>,
     stride |-> <<>>, dilation |-> <<>>,
     orig_filter_shape |-> <<>>, orig_input_shape |-> <<>>]

\* the "_bias_add" operator of lines 196-199
bias_add_op(output_without_bias, bias, output_with_bias) ==
    [name |-> "_bias_add", inputs |-> <<output_without_bias, bias>>,
     outputs |-> <<output_with_bias>>,
     padding |-> PaddingList(<<>>), border |-> "", size |-> <<>>,
     stride |-> <<>>, dilation |-> <<>>,
     orig_filter_shape |-> <<>>, orig_input_shape |-> <<>>]

\* (the bias compared with the empty list)
is_zero_bias_empty(bias) == bias.is_constant /\ bias.data = <<>>

\* bias.is_constant and bias.data == [0]
is_zero_bias(bias) == bias.is_constant /\ bias.data = <<0>>

\* pass 1 has ended; for nnefop in list(g.operations): the snapshot is taken
_transform_extract_bias_add_begin ==
    /\ pc = "padding"
    /\ idx > Len(loop_list)
    /\ pc' = "bias"
    /\ snapshot' = operations
    /\ entry_ops' = operations
    /\ idx' = 1
    /\ visited' = <<>>
    /\ UNCHANGED <<tensors, ops, operations, graph_outputs, decision>>

\* not a conv or deconv with three or more inputs
_transform_extract_bias_add_skip ==
    /\ pc = "bias"
    /\ idx <= Len(loop_list)
    /\ ~(ops[current].name \in bias_supported_ops /\ Len(ops[current].inputs) >= 3)
    /\ idx' = idx + 1
    /\ visited' = Append(visited, current)
    /\ UNCHANGED <<tensors, ops, operations, graph_outputs, pc, snapshot,
                   decision, entry_ops>>

\* the bias is the constant [0]: the operator is cut to its first two inputs
_transform_extract_bias_add_drop ==
    /\ pc = "bias"
    /\ idx <= Len(loop_list)
    /\ ops[current].name \in bias_supported_ops
    /\ Len(ops[current].inputs) >= 3
    /\ is_zero_bias(tensors[ops[current].inputs[3]])
    /\ ops' = [ops EXCEPT ![current].inputs = TakeTwo(@)]
    /\ idx' = idx + 1
    /\ visited' = Append(visited, current)
    /\ UNCHANGED <<tensors, operations, graph_outputs, pc, snapshot,
                   decision, entry_ops>>

\* any other bias: a fresh output tensor and a "_bias_add" operator
_transform_extract_bias_add_split ==
    /\ pc = "bias"
    /\ idx <= Len(loop_list)
    /\ ops[current].name \in bias_supported_ops
    /\ Len(ops[current].inputs) >= 3
    /\ ~is_zero_bias(tensors[ops[current].inputs[3]])
    /\ LET nnefop == ops[current]
           bias == nnefop.inputs[3]
           output_with_bias == nnefop.outputs[1]
           output_without_bias == Len(tensors) + 1
       IN  /\ tensors' = Append(tensors,
                                Tensor(tensors[output_with_bias].shape,
                                       tensors[output_with_bias].dtype, FALSE, <<>>))
           /\ ops' = Append([ops EXCEPT ![current] =
                                [@ EXCEPT !.inputs = TakeTwo(nnefop.inputs),
                                          !.outputs = <<output_without_bias>>]],
                            bias_add_op(output_without_bias, bias, output_with_bias))
           /\ operations' = Append(operations, Len(ops) + 1)
    /\ idx' = idx + 1
    /\ visited' = Append(visited, current)
    /\ UNCHANGED <<graph_outputs, pc, snapshot, decision, entry_ops>>

\* pass 2 has ended: g.generate_missing_names() and g.assert_consistent()
\* belong to the graph library and change nothing that is modelled here
pre_conversion_pass_end ==
    /\ pc = "bias"
    /\ idx > Len(loop_list)
    /\ pc' = "done"
    /\ UNCHANGED <<tensors, ops, operations, graph_outputs, snapshot, idx,
                   decision, visited, entry_ops>>

Next ==
    \/ _transform_extract_padding_begin
    \/ _transform_extract_padding_skip
    \/ _transform_extract_padding_abort
    \/ _transform_extract_padding_in_op
    \/ _transform_extract_padding_insert
    \/ _transform_extract_bias_add_begin
    \/ _transform_extract_bias_add_skip
    \/ _transform_extract_bias_add_drop
    \/ _transform_extract_bias_add_split
    \/ pre_conversion_pass_end

Spec == Init /\ [][Next]_vars

(* ------------- the resolver applied to any operator kind --------------- *)

InitResolver ==
    /\ EntryGraph(supported_ops \cup other_ops)
    /\ pc = "resolver"
    /\ snapshot = <<>>
    /\ idx = 0
    /\ decision = Raised
    /\ visited = <<>>
    /\ entry_ops = <<>>

\* _get_paddings(nnefop) on the graph's first operator
resolve ==
    /\ pc = "resolver"
    /\ decision' = _get_paddings(ops[1])
    /\ pc' = "resolved"
    /\ UNCHANGED <<tensors, ops, operations, graph_outputs, snapshot, idx,
                   visited, entry_ops>>

NextResolver == resolve

SpecResolver == InitResolver /\ [][NextResolver]_vars

TypeOK ==
    /\ pc \in {"start", "padding", "bias", "done", "aborted", "resolver", "resolved"}
    /\ idx \in 0..(Len(ops) + 1)
    /\ Range(operations) = 1..Len(ops)

(* ============================== claims ================================ *)

\* the operator a pass visited last
last_visited == visited[Len(visited)]

\* a visit of the padding pass is about to happen
AtPaddingVisit == pc = "padding" /\ idx <= Len(snapshot)

\* a visit of the bias pass is about to happen
AtBiasVisit == pc = "bias" /\ idx <= Len(snapshot)

\* the padding the shapes of a conv imply: total = (D-1)*S + (F-1)*L + 1 - U,
\* pairs (floor(total/2), ceil(total/2)), written out from the claim
ImpliedConvPadding(nnefop) ==
    LET U == DropTwo(tensors[nnefop.inputs[1]].shape)
        D == DropTwo(tensors[nnefop.outputs[1]].shape)
        F == DropTwo(tensors[nnefop.inputs[2]].shape)
        total(i) == (D[i] - 1) * nnefop.stride[i] + (F[i] - 1) * nnefop.dilation[i] + 1 - U[i]
        half(i) == CHOOSE h \in (0 - 2 * Spatial)..(2 * Spatial) :
                      2 * h <= total(i) /\ total(i) < 2 * h + 2
    IN  [i \in 1..Len(U) |-> <<half(i), total(i) - half(i)>>]

\* C1: for a conv whose stored padding is empty and whose border is not
\* "constant", the resolver returns ("VALID", [(0,0),(0,0)] + computed pairs)
\* whenever some computed pair is non-zero (input 10x10, output 10x10,
\* filter 3x3, stride 1, dilation 1 gives [(0,0),(0,0),(1,1),(1,1)]).
C1_ComputedDescriptor ==
    (/\ pc = "resolved"
     /\ ops[1].name = "conv"
     /\ Len(ops[1].padding.list) = 0
     /\ ops[1].border \notin {"constant", "Constant"}
     /\ \E i \in 1..2 : ImpliedConvPadding(ops[1])[i] # <<0, 0>>)
    => decision = Returned("VALID", TRUE,
                           <<<<0, 0>>, <<0, 0>>>> \o ImpliedConvPadding(ops[1]))

\* C2 as stated: for a backward-kind operator the resolver never returns a
\* decision carrying an explicit descriptor.
C2_ResolverNeverExplicit ==
    (/\ pc \in {"padding", "aborted"}
     /\ Len(visited) > 0
     /\ ops[last_visited].name \in {"deconv", "conv_grad_filter", "max_pool_grad",
                                    "max_pool_grad_with_index", "avg_pool_grad"})
    => ~decision.has_out

\* C2 amended: when the resolver returns an explicit descriptor for a
\* backward-kind operator, _transform_extract_padding aborts at that operator:
\* it writes the mode into the padding attribute, creates no operator and no
\* tensor, and rewires nothing.
C2_PassAbortsOnBackwardExplicit ==
    [][(/\ AtPaddingVisit
        /\ ops[snapshot[idx]].name \in {"deconv", "conv_grad_filter", "max_pool_grad",
                                        "max_pool_grad_with_index", "avg_pool_grad"}
        /\ _get_paddings(ops[snapshot[idx]]).has_out)
       => (/\ pc' = "aborted"
           /\ tensors' = tensors
           /\ operations' = operations
           /\ Len(ops') = Len(ops)
           /\ ops'[snapshot[idx]].padding = PaddingMode("VALID")
           /\ \A o \in 1..Len(ops) : ops'[o].inputs = ops[o].inputs)]_vars

C2_Witness ==
    /\ pc = "aborted"
    /\ decision.has_out
    /\ ops[last_visited].name = "deconv"
    /\ ops[last_visited].padding = PaddingMode("VALID")

\* C3: when the padding pass inserts a padding operator for a forward-kind
\* operator with descriptor P and first input T, the new operator is a "box"
\* over T with size 1 in every dimension of T, the consumer's border and
\* padding P; its output has T's rank and dtype and shape[i] = T.shape[i] +
\* P[i].before + P[i].after; the consumer's first input becomes that output
\* and its other inputs are unchanged.
C3_InsertedPaddingOperator ==
    [][(AtPaddingVisit /\ Len(operations') > Len(operations))
       => LET o == snapshot[idx]
              T == ops[o].inputs[1]
              P == decision'.out_of_op
              box == ops'[operations'[Len(operations')]]
              out == box.outputs[1]
          IN  /\ ops[o].name \in {"conv", "argmax_pool", "max_pool_with_index",
                                  "max_pool", "avg_pool"}
              /\ decision'.has_out
              /\ Len(operations') = Len(operations) + 1
              /\ box.name = "box"
              /\ box.inputs = <<T>>
              /\ Len(box.outputs) = 1
              /\ Len(box.size) = Len(tensors[T].shape)
              /\ \A i \in 1..Len(box.size) : box.size[i] = 1
              /\ box.border = ops[o].border
              /\ box.padding = PaddingList(P)
              /\ out \notin 1..Len(tensors)
              /\ Len(tensors'[out].shape) = Len(tensors[T].shape)
              /\ tensors'[out].dtype = tensors[T].dtype
              /\ \A i \in 1..Len(tensors[T].shape) :
                    tensors'[out].shape[i] = tensors[T].shape[i] + P[i][1] + P[i][2]
              /\ ops'[o].inputs[1] = out
              /\ Len(ops'[o].inputs) = Len(ops[o].inputs)
              /\ \A i \in 2..Len(ops[o].inputs) : ops'[o].inputs[i] = ops[o].inputs[i]]_vars

C3_Witness ==
    /\ pc = "padding"
    /\ \E b \in Range(operations) :
         /\ ops[b].name = "box"
         /\ ops[b].padding.list[3] = <<0, 1>>
         /\ ops[1].inputs[1] = ops[b].outputs[1]
         /\ tensors[ops[b].outputs[1]].shape[3] = Spatial + 1
         /\ Len(ops[1].inputs) = 3

\* C4: for a conv or deconv with three or more inputs whose third input is
\* not a constant [0], after the bias pass has visited it the operator has
\* exactly its first two inputs; a "_bias_add" operator exists with inputs
\* (fresh tensor, bias) whose output is the operator's former output tensor;
\* the operator's output is the fresh tensor, distinct from the former one,
\* with its shape and dtype, consumed by that addition and by nothing else;
\* the inputs of all other operators are unchanged.
C4_BiasSplit ==
    [][(/\ AtBiasVisit
        /\ ops[snapshot[idx]].name \in {"conv", "deconv"}
        /\ Len(ops[snapshot[idx]].inputs) >= 3
        /\ ~(/\ tensors[ops[snapshot[idx]].inputs[3]].is_constant
             /\ tensors[ops[snapshot[idx]].inputs[3]].data = <<0>>))
       => LET o == snapshot[idx]
              bias == ops[o].inputs[3]
              former == ops[o].outputs[1]
              fresh == ops'[o].outputs[1]
              adds == {a \in Range(operations') :
                          /\ ops'[a].name = "_bias_add"
                          /\ ops'[a].inputs = <<fresh, bias>>
                          /\ ops'[a].outputs = <<former>>}
          IN  /\ ops'[o].inputs = <<ops[o].inputs[1], ops[o].inputs[2]>>
              /\ Cardinality(adds) = 1
              /\ ops'[o].outputs = <<fresh>>
              /\ fresh # former
              /\ fresh \notin 1..Len(tensors)
              /\ tensors'[fresh].shape = tensors[former].shape
              /\ tensors'[fresh].dtype = tensors[former].dtype
              /\ {c \in Range(operations') : fresh \in Range(ops'[c].inputs)} = adds
              /\ \A t \in 1..Len(tensors) : tensors'[t] = tensors[t]
              /\ \A p \in Range(operations) \ {o} :
                    ops'[p].inputs = ops[p].inputs /\ ops'[p].outputs = ops[p].outputs]_vars

C4_Witness ==
    /\ pc = "bias"
    /\ \E a \in Range(operations) :
         /\ ops[a].name = "_bias_add"
         /\ ops[a].outputs = <<4>>
         /\ ops[a].inputs[2] = 3
         /\ ops[1].outputs = <<ops[a].inputs[1]>>
         /\ ops[2].inputs[1] = 4
         /\ ~tensors[3].is_constant

\* C5: for a conv or deconv with three or more inputs whose third input is
\* a constant [0], after the bias pass has visited it the operator has
\* exactly its first two inputs, no operator and no tensor has been created,
\* and its output tensor is the same as before.
C5_ZeroBiasDropped ==
    [][(/\ AtBiasVisit
        /\ ops[snapshot[idx]].name \in {"conv", "deconv"}
        /\ Len(ops[snapshot[idx]].inputs) >= 3
        /\ tensors[ops[snapshot[idx]].inputs[3]].is_constant
        /\ tensors[ops[snapshot[idx]].inputs[3]].data = <<0>>)
       => LET o == snapshot[idx]
          IN  /\ ops'[o].inputs = <<ops[o].inputs[1], ops[o].inputs[2]>>
              /\ ops'[o].outputs = ops[o].outputs
              /\ operations' = operations
              /\ Len(ops') = Len(ops)
              /\ tensors' = tensors
              /\ \A p \in Range(operations) \ {o} : ops'[p] = ops[p]]_vars

C5_Witness ==
    /\ pc = "bias"
    /\ Len(visited) > 0
    /\ last_visited = 1
    /\ ops[1].name = "conv"
    /\ ops[1].inputs = <<1, 2>>
    /\ ops[1].outputs = <<4>>
    /\ tensors[3].is_constant /\ tensors[3].data = <<0>>
    /\ ops[2].name = "relu"

\* C6: for a supported operator whose stored padding is non-empty, the
\* resolver returns ("VALID", None) if and only if every amount of the stored
\* padding is zero; a stored padding with a non-zero amount, positive or
\* negative, yields an explicit descriptor equal to the stored pairs (after
\* two leading (0,0) pairs for conv-family kinds).
C6_ValidIffAllZero ==
    (/\ pc = "resolved"
     /\ ops[1].name \in {"conv", "argmax_pool", "max_pool_with_index", "max_pool",
                         "avg_pool", "deconv", "conv_grad_filter", "max_pool_grad",
                         "max_pool_grad_with_index", "avg_pool_grad"}
     /\ Len(ops[1].padding.list) > 0)
    => LET stored == ops[1].padding.list
           all_zero == \A i \in 1..Len(stored) : stored[i] = <<0, 0>>
           lead == IF ops[1].name \in {"conv", "deconv", "conv_grad_filter"}
                   THEN <<<<0, 0>>, <<0, 0>>>> ELSE <<>>
       IN  /\ (decision = Returned("VALID", FALSE, <<>>)) <=> all_zero
           /\ ~all_zero => decision = Returned("VALID", TRUE, lead \o stored)

\* C7: the resolver invoked on an operator whose kind is outside the
\* supported vocabulary always fails and never returns a decision.
C7_UnsupportedKindFails ==
    (/\ pc = "resolved"
     /\ ops[1].name \notin {"conv", "argmax_pool", "max_pool_with_index", "max_pool",
                            "avg_pool", "deconv", "conv_grad_filter", "max_pool_grad",
                            "max_pool_grad_with_index", "avg_pool_grad"})
    => decision.failed

\* C8: for a pooling-kind operator whose stored padding is empty and whose
\* border is "ignore", the resolver returns exactly ("SAME", None) and the
\* padding pass changes nothing in the graph but the operator's padding
\* attribute, which becomes "SAME".
C8_PoolIgnoreIsSame ==
    [][(/\ AtPaddingVisit
        /\ ops[snapshot[idx]].name \in {"argmax_pool", "max_pool_with_index", "max_pool",
                                        "avg_pool", "max_pool_grad",
                                        "max_pool_grad_with_index", "avg_pool_grad"}
        /\ ops[snapshot[idx]].padding = PaddingList(<<>>)
        /\ ops[snapshot[idx]].border \in {"ignore", "IGNORE"})
       => (/\ decision' = Returned("SAME", FALSE, <<>>)
           /\ ops' = [ops EXCEPT ![snapshot[idx]].padding = PaddingMode("SAME")]
           /\ tensors' = tensors
           /\ operations' = operations
           /\ graph_outputs' = graph_outputs
           /\ pc' = "padding")]_vars

C8_Witness ==
    /\ pc = "padding"
    /\ Len(visited) = 1
    /\ ops[1].name = "max_pool_grad"
    /\ ops[1].border = "IGNORE"
    /\ ops[1].padding = PaddingMode("SAME")
    /\ decision = Returned("SAME", FALSE, <<>>)
    /\ Len(ops) = 2

\* C9: in a pass that does not abort, every operator present at pass start
\* is visited exactly once, in order, and no operator created during the pass
\* is visited; at most one "box" is inserted per original forward-kind
\* operator and at most one "_bias_add" per original conv or deconv.
C9_SnapshotIteration ==
    pc \in {"padding", "bias"} =>
        LET created(n) == {o \in Range(operations) : ops[o].name = n}
            originals(ns) == {o \in Range(entry_ops) : ops[o].name \in ns}
        IN  /\ Len(visited) <= Len(entry_ops)
            /\ \A i \in 1..Len(visited) : visited[i] = entry_ops[i]
            /\ idx > Len(snapshot) => visited = entry_ops
            /\ \A o \in Range(operations) :
                  ops[o].name \in {"box", "_bias_add"} /\ o \notin Range(entry_ops)
                      => o \notin Range(visited)
            /\ Cardinality(created("box"))
                  <= Cardinality(originals({"conv", "argmax_pool", "max_pool_with_index",
                                            "max_pool", "avg_pool"}))
            /\ \A o \in Range(entry_ops) :
                  Cardinality({b \in created("box") :
                                  ops[b].outputs[1] = ops[o].inputs[1]}) <= 1
            /\ pc = "bias" =>
                  Cardinality(created("_bias_add"))
                      <= Cardinality(originals({"conv", "deconv"}))

C9_Witness ==
    /\ pc = "bias"
    /\ idx > Len(snapshot)
    /\ Len(visited) = 4
    /\ Cardinality({o \in Range(operations) : ops[o].name = "box"}) = 2
    /\ Cardinality({o \in Range(operations) : ops[o].name = "_bias_add"}) = 2

\* C10: if the graph is consistent on entry and neither pass aborts, then
\* after both passes every tensor still has at most one producer and is
\* still an input or output of some operator or a graph output.
C10_ConsistentAfterPasses ==
    ((pc = "bias" /\ idx > Len(snapshot)) \/ pc = "done") => Consistent

====
